---- MODULE Spec2Model ----
(***************************************************************************)
(* Model of the quest4-linux-crawling crawler (index.js, config.js):       *)
(* URLQueue, CrawlResult, WebCrawler and main() with its signal handlers.  *)
(*                                                                         *)
(* One action is one turn of the Node.js event loop: the code that runs    *)
(* from the completion of an awaited operation up to the next await.       *)
(* Signal handlers run as turns of their own, between those of main().     *)
(***************************************************************************)
EXTENDS Integers, Sequences, FiniteSets, TLC

\* ------------------------------------------------------------------ bounds
MaxPagesOpt == 2        \* --max-pages is drawn from 0..MaxPagesOpt
MaxDepthOpt == 1        \* --depth is drawn from -1..MaxDepthOpt
MaxLinks == 2           \* a fetched page returns at most MaxLinks links
MaxSignals == 2         \* SIGINT/SIGTERM deliveries in one run
MaxCalls == 3           \* addPage/addError calls on one CrawlResult
MaxDocPages == 2        \* a PDF given to the merge has up to MaxDocPages pages, or the sample's
MaxRangeLen == 3        \* a --pages range given to parsePageRange has up to MaxRangeLen characters
MaxRetriesArg == 4      \* the `retries` argument of withRetry is drawn from 0..MaxRetriesArg

\* ------------------------------------------------------- program constants
MAX_RETRIES == 3           \* config.js: MAX_RETRIES
RETRY_DELAY == 2000        \* config.js: RETRY_DELAY, in ms
REQUEST_DELAY == 500       \* config.js: CRAWL.REQUEST_DELAY, in ms
\* config.js: USER_AGENTS, the browser each of the three strings ends with
USER_AGENTS == <<"Chrome/120", "Firefox/121", "Chrome/119">>

\* -------------------------------------------------------------------- URLs
\* A link is what `new URL(href)` makes of it: hostname, pathname, search and
\* hash, each a string (a sequence of tokens); or it does not parse.
Malformed == [bad |-> TRUE]
Url(h, p, s, f) == [bad |-> FALSE, hostname |-> h, pathname |-> p, search |-> s, hash |-> f]

BaseHost == <<"a", ".", "com">>
SubHost == <<"sub", ".", "a", ".", "com">>
OtherHost == <<"not", "a", ".", "com">>     \* ends with the base host, no "." before it

SeedUrl == Url(BaseHost, <<"/">>, <<>>, <<>>)
RawLinks ==
    { SeedUrl,
      Url(BaseHost, <<"/", "x">>, <<>>, <<>>),
      Url(BaseHost, <<"/", "x", "/">>, <<>>, <<"#", "f">>),
      Url(SubHost, <<"/", "y">>, <<>>, <<>>),
      Url(OtherHost, <<"/", "y">>, <<>>, <<>>),
      Malformed }
\* the hrefs of a site whose links all parse and stay on the seed's domain
DeepLinks ==
    { SeedUrl,
      Url(BaseHost, <<"/", "x">>, <<>>, <<>>),
      Url(SubHost, <<"/", "y">>, <<>>, <<>>),
      Url(BaseHost, <<"/", "z">>, <<>>, <<>>) }

\* hrefs of one page that differ in a trailing "/" of the path, in the query
\* and in the fragment, and an unparsable one
AliasLinks ==
    { SeedUrl,
      Url(BaseHost, <<"/", "x">>, <<>>, <<>>),
      Url(BaseHost, <<"/", "x", "/">>, <<>>, <<>>),
      Url(BaseHost, <<"/", "x">>, <<>>, <<"#", "f">>),
      Url(BaseHost, <<"/", "x">>, <<"?", "q">>, <<>>),
      Url(BaseHost, <<"/", "x", "/">>, <<"?", "q">>, <<>>),
      Url(BaseHost, <<"/", "x", "/">>, <<"?", "q">>, <<"#", "f">>),
      Malformed }

\* parsed.toString(): the serialized URL, a sequence of tokens
toString(u) == u.hostname \o u.pathname \o u.search \o u.hash

EndsWith(s, t) ==
    /\ Len(s) >= Len(t)
    /\ SubSeq(s, Len(s) - Len(t) + 1, Len(s)) = t

\* URLQueue.normalize: null for an unparsable URL, else the URL without its
\* fragment and without one trailing "/"
Null == <<>>
normalize(url) ==
    IF url.bad THEN Null
    ELSE LET parsed == [url EXCEPT !.hash = <<>>]
             normalized == toString(parsed)
         IN IF normalized[Len(normalized)] = "/"
            THEN SubSeq(normalized, 1, Len(normalized) - 1)
            ELSE normalized

\* the test with `endsWith(baseHost)`, the "." left out
IsSubdomain_NoDot(h, base) == EndsWith(h, base)

\* hostname.endsWith('.' + baseHost)
IsSubdomain(h, base) == EndsWith(h, <<".">> \o base)

\* WebCrawler.filterLinks: the links on the base host or a subdomain, in order
filterLinks(links) ==
    SelectSeq(links, LAMBDA href :
        /\ ~href.bad
        /\ (href.hostname = BaseHost \/ IsSubdomain(href.hostname, BaseHost)))

\* ---------------------------------------------------------------- URLQueue
\* add() without the `visited.has(normalized)` test
add_NoDedup(q, v, url, depth, limit) ==
    LET normalized == normalize(url) IN
    IF normalized = Null
    THEN [queue |-> q, visited |-> v, ok |-> FALSE, why |-> "malformed"]
    ELSE IF Cardinality(v) >= limit
    THEN [queue |-> q, visited |-> v, ok |-> FALSE, why |-> "budget"]
    ELSE [queue |-> Append(q, [url |-> normalized, depth |-> depth]),
          visited |-> v \cup {normalized}, ok |-> TRUE, why |-> "admitted"]

\* add() with `visited.size > maxPages` for `visited.size >= maxPages`
add_OffByOne(q, v, url, depth, limit) ==
    LET normalized == normalize(url) IN
    IF normalized = Null
    THEN [queue |-> q, visited |-> v, ok |-> FALSE, why |-> "malformed"]
    ELSE IF normalized \in v
    THEN [queue |-> q, visited |-> v, ok |-> FALSE, why |-> "visited"]
    ELSE IF Cardinality(v) > limit
    THEN [queue |-> q, visited |-> v, ok |-> FALSE, why |-> "budget"]
    ELSE [queue |-> Append(q, [url |-> normalized, depth |-> depth]),
          visited |-> v \cup {normalized}, ok |-> TRUE, why |-> "admitted"]

\* add() without `this.visited.add(normalized)`
add_NoMark(q, v, url, depth, limit) ==
    LET normalized == normalize(url) IN
    IF normalized = Null
    THEN [queue |-> q, visited |-> v, ok |-> FALSE, why |-> "malformed"]
    ELSE IF normalized \in v
    THEN [queue |-> q, visited |-> v, ok |-> FALSE, why |-> "visited"]
    ELSE IF Cardinality(v) >= limit
    THEN [queue |-> q, visited |-> v, ok |-> FALSE, why |-> "budget"]
    ELSE [queue |-> Append(q, [url |-> normalized, depth |-> depth]),
          visited |-> v, ok |-> TRUE, why |-> "admitted"]

\* URLQueue.add on the pair (queue, visited): the pair after the call, the
\* value returned (ok) and the return statement taken (why)
add(q, v, url, depth, limit) ==
    LET normalized == normalize(url) IN
    IF normalized = Null
    THEN [queue |-> q, visited |-> v, ok |-> FALSE, why |-> "malformed"]
    ELSE IF normalized \in v
    THEN [queue |-> q, visited |-> v, ok |-> FALSE, why |-> "visited"]
    ELSE IF Cardinality(v) >= limit
    THEN [queue |-> q, visited |-> v, ok |-> FALSE, why |-> "budget"]
    ELSE [queue |-> Append(q, [url |-> normalized, depth |-> depth]),
          visited |-> v \cup {normalized}, ok |-> TRUE, why |-> "admitted"]

\* next() with `this.queue.pop()` for `this.queue.shift()`
next_Pop(q) == [item |-> q[Len(q)], rest |-> SubSeq(q, 1, Len(q) - 1)]

\* URLQueue.next on a non-empty queue: `this.queue.shift()`, the entry
\* returned and the queue left
next(q) == [item |-> Head(q), rest |-> Tail(q)]

\* the loop run over the links from the last to the first
RECURSIVE addLinks_Reversed(_, _, _, _, _, _)
addLinks_Reversed(q, v, links, depth, limit, whys) ==
    IF links = <<>> THEN [queue |-> q, visited |-> v, whys |-> whys]
    ELSE LET r == add(q, v, links[Len(links)], depth, limit)
         IN addLinks_Reversed(r.queue, r.visited,
                              SubSeq(links, 1, Len(links) - 1), depth, limit,
                              whys \cup {r.why})

\* the loop `for (const link of newLinks) if (this.queue.add(link, depth + 1)) added++`
\* (whys: the return statements the calls took)
RECURSIVE addLinks(_, _, _, _, _, _)
addLinks(q, v, links, depth, limit, whys) ==
    IF links = <<>> THEN [queue |-> q, visited |-> v, whys |-> whys]
    ELSE LET r == add(q, v, Head(links), depth, limit)
         IN addLinks(r.queue, r.visited, Tail(links), depth, limit,
                     whys \cup {r.why})

\* ------------------------------------------------------------- CrawlResult
NewCrawlResult ==
    [pages |-> <<>>, errors |-> <<>>, endTime |-> "null",
     stats |-> [totalPages |-> 0, successfulPages |-> 0, failedPages |-> 0,
                totalLinks |-> 0, totalImages |-> 0, totalTables |-> 0,
                duration |-> "undefined"]]

\* addPage() without `this.stats.totalLinks += pageData.links.length`
addPage_NoLinks(res, pageData) ==
    [res EXCEPT !.pages = Append(@, pageData),
                !.stats.totalPages = @ + 1,
                !.stats.successfulPages = @ + 1,
                !.stats.totalImages = @ + pageData.images,
                !.stats.totalTables = @ + pageData.tables]

\* CrawlResult.addPage(pageData); pageData.links, .images and .tables hold
\* the lengths of the lists
addPage(res, pageData) ==
    [res EXCEPT !.pages = Append(@, pageData),
                !.stats.totalPages = @ + 1,
                !.stats.successfulPages = @ + 1,
                !.stats.totalLinks = @ + pageData.links,
                !.stats.totalImages = @ + pageData.images,
                !.stats.totalTables = @ + pageData.tables]

\* addError() without `this.stats.totalPages++`
addError_NoTotal(res, url, message) ==
    [res EXCEPT !.errors = Append(@, [url |-> url, error |-> message]),
                !.stats.failedPages = @ + 1]

\* addError() recording a fixed text for `error.message`
addError_NoMessage(res, url, message) ==
    [res EXCEPT !.errors = Append(@, [url |-> url, error |-> "Crawl failed"]),
                !.stats.totalPages = @ + 1,
                !.stats.failedPages = @ + 1]

\* CrawlResult.addError(url, error), `message` being error.message
addError(res, url, message) ==
    [res EXCEPT !.errors = Append(@, [url |-> url, error |-> message]),
                !.stats.totalPages = @ + 1,
                !.stats.failedPages = @ + 1]

finalize(res) ==
    [res EXCEPT !.endTime = "stamped", !.stats.duration = "defined"]

\* what saveResults serialises: new Date(null) is the epoch, and
\* (undefined / 1000).toFixed(2) is "NaN"
Snapshot(res) ==
    [endTime |-> IF res.endTime = "null" THEN "epoch" ELSE res.endTime,
     duration |-> IF res.stats.duration = "undefined" THEN "NaN" ELSE res.stats.duration,
     stats |-> res.stats, pages |-> res.pages, errors |-> res.errors]

\* ------------------------------------------------------ quest 1: withRetry
Q1_MAX_RETRIES == 3        \* quest 1 config.js: MAX_RETRIES
Q1_RETRY_DELAY == 1000     \* quest 1 config.js: RETRY_DELAY, in ms

\* the test with `attempt === retries - 1`
isLastAttempt_OneEarly(attempt, retries) == attempt = retries - 1

\* `if (attempt === retries) throw err`
isLastAttempt(attempt, retries) == attempt = retries

\* no call of withRetry() is under way
NoRetryRun == [pc |-> "idle"]

\* --------------------------------------------------- quest 2: mergePDFs
\* A string is the sequence of its characters.  NaN is the empty sequence and
\* the number n the sequence <<n>>, so that no comparison with NaN holds.
NaN == <<>>
Num(n) == <<n>>

DigitValue ==
    [c \in {"0", "1", "2", "3", "4", "5", "6", "7", "8", "9"} |->
        CASE c = "0" -> 0 [] c = "1" -> 1 [] c = "2" -> 2 [] c = "3" -> 3
          [] c = "4" -> 4 [] c = "5" -> 5 [] c = "6" -> 6 [] c = "7" -> 7
          [] c = "8" -> 8 [] c = "9" -> 9]
IsDigit(c) == c \in DOMAIN DigitValue

\* the value of a string of decimal digits
RECURSIVE DecimalValue(_)
DecimalValue(digits) ==
    IF digits = <<>> THEN 0
    ELSE DecimalValue(SubSeq(digits, 1, Len(digits) - 1)) * 10
             + DigitValue[digits[Len(digits)]]

\* String.prototype.split with a separator of one character
RECURSIVE split(_, _)
split(s, sep) ==
    IF \A i \in 1..Len(s) : s[i] # sep THEN <<s>>
    ELSE LET at == CHOOSE i \in 1..Len(s) :
                       s[i] = sep /\ \A j \in 1..(i - 1) : s[j] # sep
         IN <<SubSeq(s, 1, at - 1)>> \o split(SubSeq(s, at + 1, Len(s)), sep)

\* String.prototype.trim, for strings whose only white space is " "
RECURSIVE trim(_)
trim(s) ==
    IF s # <<>> /\ Head(s) = " " THEN trim(Tail(s))
    ELSE IF s # <<>> /\ s[Len(s)] = " " THEN trim(SubSeq(s, 1, Len(s) - 1))
    ELSE s

\* String.prototype.includes with a string of one character
includes(s, c) == \E i \in 1..Len(s) : s[i] = c

\* Number(s) for a string of digits, letters and spaces: 0 for the empty or
\* blank string, the value of a string of digits, NaN for anything else
Number(s) ==
    IF trim(s) = <<>> THEN Num(0)
    ELSE IF \A i \in 1..Len(trim(s)) : IsDigit(trim(s)[i])
    THEN Num(DecimalValue(trim(s)))
    ELSE NaN

\* the longest prefix of s made of digits
RECURSIVE DigitPrefix(_)
DigitPrefix(s) ==
    IF s # <<>> /\ IsDigit(Head(s)) THEN <<Head(s)>> \o DigitPrefix(Tail(s))
    ELSE <<>>

\* Number.parseInt(s, 10) for a string without a sign: the value of the
\* digits that follow the leading white space, NaN when there are none
parseInt(s) ==
    IF DigitPrefix(trim(s)) = <<>> THEN NaN
    ELSE Num(DecimalValue(DigitPrefix(trim(s))))

\* `for (let i = start - 1; i < end && i < totalPages; i++) pages.push(i)`,
\* from the value i on
RECURSIVE spanLoop(_, _, _, _)
spanLoop(i, end, totalPages, pages) ==
    IF i < end /\ i < totalPages
    THEN spanLoop(i + 1, end, totalPages, Append(pages, i))
    ELSE pages

\* the body of `for (const part of parts)`, for the parts left
RECURSIVE partsLoop(_, _, _)
partsLoop(parts, totalPages, pages) ==
    IF parts = <<>> THEN pages
    ELSE LET trimmed == trim(Head(parts))
             numbers == [k \in 1..Len(split(trimmed, "-")) |->
                            Number(split(trimmed, "-")[k])]
             start == numbers[1]
             end == numbers[2]
             pageNum == parseInt(trimmed)
         IN partsLoop(Tail(parts), totalPages,
                IF includes(trimmed, "-")
                THEN IF start = NaN \/ end = NaN THEN pages
                     ELSE spanLoop(start[1] - 1, end[1], totalPages, pages)
                ELSE IF pageNum # NaN /\ pageNum[1] - 1 >= 0
                                      /\ pageNum[1] - 1 < totalPages
                     THEN Append(pages, pageNum[1] - 1)
                     ELSE pages)

All == <<"a", "l", "l">>

\* parsePageRange(range, totalPages): the zero-based indices selected
parsePageRange(range, totalPages) ==
    IF range = All THEN [i \in 1..totalPages |-> i - 1]
    ELSE partsLoop(split(range, ","), totalPages, <<>>)

\* a PDF document of n pages, named by its label
Document(label, n) == [k \in 1..n |-> [doc |-> label, page |-> k]]

\* PDFDocument.copyPages(srcDoc, indices) of pdf-lib: the pages
\* srcDoc.getPages()[index], in the order of indices; an index that is not
\* one of a page makes it throw (a TypeError, on `undefined.node`)
copyPages(srcDoc, indices) ==
    IF \A k \in 1..Len(indices) : indices[k] \in 0..(Len(srcDoc) - 1)
    THEN [ok |-> TRUE, pages |-> [k \in 1..Len(indices) |-> srcDoc[indices[k] + 1]]]
    ELSE [ok |-> FALSE, pages |-> <<>>]

\* `sources` with document A first whatever the order is
sources_IgnoresOrder(order, a, b) == <<a, b>>

\* `const sources = order === 'ab' ? [A, B] : [B, A]`
sources(order, a, b) == IF order = <<"a", "b">> THEN <<a, b>> ELSE <<b, a>>

\* no call of mergePDFs() is under way
NoMergeRun == [pc |-> "idle"]

\* ------------------------------------------------------------------- state
VARIABLES
    maxDepth, maxPages,     \* WebCrawler options (--depth, --max-pages)
    queue, visited,         \* URLQueue.queue, URLQueue.visited
    result,                 \* WebCrawler.result (CrawlResult)
    browser,                \* WebCrawler.browser: "null" or "launched"
    userAgentIdx,           \* WebCrawler.userAgentIdx
    pc,                     \* the await main() is suspended at
    item, retries, page,    \* crawl()/crawlPage() locals: item, retries, page
    refused,                \* why add() refused links of the page just fetched
    openPages,              \* browser pages opened and not yet closed
    signals,                \* signals delivered so far
    shutdownPending,        \* shutdown() calls suspended at `await crawler.cleanup()`
    closeCalls,             \* calls of browser.close()
    finalizeCalls,          \* calls of CrawlResult.finalize()
    report,                 \* the report file: <<>> or <<the last one written>>
    exited, exitCode,       \* the process has ended, and its exit code
    visits,                 \* the URLs handed to crawlPage, in order
    pushed,                 \* the entries queue.push() was called with, in order
    attempts,               \* calls of browser.newPage() in the latest visit
    waits,                  \* the retry delays (ms) set in the latest visit
    pauses,                 \* the rate-limit delays (ms) crawl() has set
    agents,                 \* the user agents getNextUserAgent() has returned
    site,                   \* the hrefs the pages of the crawled site carry
    err,                    \* the error the latest `catch` caught, till its block ends
    retryRun,               \* quest 1: the call of withRetry() under way
    mergeRun                \* quest 2: the call of mergePDFs() under way

vars == <<maxDepth, maxPages, queue, visited, result, browser, userAgentIdx, pc,
          item, retries, page, refused, openPages, signals,
          shutdownPending, closeCalls, finalizeCalls, report, exited, exitCode,
          visits, pushed, attempts, waits, err, site, pauses, agents,
          retryRun, mergeRun>>

NoItem == [url |-> Null, depth |-> 0]
Statuses == {200, 404}           \* response.status() of page.goto
\* images.length and tables.length of an extracted page
PageMedia == {[images |-> 2, tables |-> 1]}
\* the links of an extracted page: none, or MaxLinks of them (a shorter list
\* queues what a full one with unparsable or off-site links in it queues)
LinkLists(hrefs) == {<<>>} \cup [1..MaxLinks -> hrefs]

\* the crawler when main() awaits crawler.init(), for the --depth and
\* --max-pages options drawn from the given sets and a site with these hrefs
CrawlerInit(depths, budgets, hrefs) ==
    /\ maxDepth \in depths
    /\ maxPages \in budgets
    /\ site = hrefs
    /\ queue = <<>>
    /\ visited = {}
    /\ result = NewCrawlResult
    /\ browser = "null"
    /\ userAgentIdx = 0
    /\ pc = "launch"
    /\ item = NoItem
    /\ retries = 0
    /\ page = "undefined"
    /\ refused = {}
    /\ openPages = 0
    /\ signals = 0
    /\ shutdownPending = 0
    /\ closeCalls = 0
    /\ finalizeCalls = 0
    /\ report = <<>>
    /\ exited = FALSE
    /\ exitCode = 0
    /\ visits = <<>>
    /\ pushed = <<>>
    /\ attempts = 0
    /\ waits = <<>>
    /\ err = "none"
    /\ pauses = <<>>
    /\ agents = <<>>

\* the state when main() of the crawler awaits crawler.init(): the scripts of
\* quests 1 and 2 are other processes, and nothing of them runs
InitWith(depths, budgets, hrefs) ==
    /\ CrawlerInit(depths, budgets, hrefs)
    /\ retryRun = NoRetryRun
    /\ mergeRun = NoMergeRun

Init == InitWith((-1)..MaxDepthOpt, 0..MaxPagesOpt, RawLinks)

\* ------------------------------------------------------------ main(): tail
\* no entry is skipped: the `depth > this.maxDepth` test left out
SkipDeep_None(q, limit) == q

\* `depth > this.maxDepth` entries at the head of the queue are popped and
\* skipped without an await
RECURSIVE SkipDeep(_, _)
SkipDeep(q, limit) ==
    IF q # <<>> /\ next(q).item.depth > limit
    THEN SkipDeep(next(q).rest, limit) ELSE q

\* the code after the while loop of crawl(): finalize(), then in main()
\* saveResults(), and either cleanup() in `finally` or process.exit(1) in `catch`
FinishRun ==
    /\ result' = finalize(result)
    /\ finalizeCalls' = finalizeCalls + 1
    /\ \E saved \in BOOLEAN :
         IF saved
         THEN /\ report' = <<Snapshot(finalize(result))>>
              /\ closeCalls' = closeCalls + 1
              /\ pc' = "closing"
              /\ UNCHANGED <<exited, exitCode>>
         ELSE /\ exited' = TRUE
              /\ exitCode' = 1
              /\ pc' = "exited"
              /\ UNCHANGED <<report, closeCalls>>

\* the top of the while loop of crawl() on queue q, up to the next await:
\* the first browser.newPage() of a visit, or browser.close() in cleanup()
LoopTop(q) ==
    LET rest == SkipDeep(q, maxDepth) IN
    IF result.stats.successfulPages < maxPages /\ rest # <<>>
    THEN /\ item' = next(rest).item
         /\ queue' = next(rest).rest
         /\ visits' = Append(visits, next(rest).item.url)
         /\ retries' = 0
         /\ page' = "undefined"
         /\ attempts' = 1
         /\ waits' = <<>>
         /\ err' = "none"
         /\ pc' = "newPage"
         /\ UNCHANGED <<result, finalizeCalls, report, closeCalls, exited, exitCode>>
    ELSE /\ queue' = IF result.stats.successfulPages < maxPages THEN rest ELSE q
         /\ UNCHANGED <<item, visits, retries, page, attempts, waits, err>>
         /\ FinishRun

Entries(q) == { q[i] : i \in 1..Len(q) }

\* main() with the queue seeded before init() is awaited
LaunchDone_SeedsFirst ==
    /\ pc = "launch" /\ ~exited
    /\ \E launched \in BOOLEAN :
         LET seeded == add(queue, visited, SeedUrl, 0, maxPages) IN
         /\ visited' = seeded.visited
         /\ pushed' = pushed \o seeded.queue
         /\ IF launched
            THEN /\ browser' = "launched"
                 /\ LoopTop(seeded.queue)
            ELSE /\ exited' = TRUE
                 /\ exitCode' = 1
                 /\ pc' = "exited"
                 /\ queue' = seeded.queue
                 /\ UNCHANGED <<browser, result, item, visits, retries, page,
                                finalizeCalls, report, closeCalls, attempts,
                                waits, err>>
    /\ UNCHANGED <<retryRun, mergeRun, maxDepth, maxPages, site, agents, pauses, userAgentIdx, refused, openPages,
                   signals, shutdownPending>>

\* `await crawler.init()` completes: the browser is launched and crawl()
\* seeds the queue, or puppeteer.launch threw and main() exits with 1
LaunchDone ==
    /\ pc = "launch" /\ ~exited
    /\ \E launched \in BOOLEAN :
         IF launched
         THEN LET seeded == add(queue, visited, SeedUrl, 0, maxPages) IN
              /\ browser' = "launched"
              /\ visited' = seeded.visited
              /\ pushed' = pushed \o seeded.queue
              /\ LoopTop(seeded.queue)
         ELSE /\ exited' = TRUE
              /\ exitCode' = 1
              /\ pc' = "exited"
              /\ UNCHANGED <<browser, visited, queue, result, item, visits, retries,
                             page, finalizeCalls, report, closeCalls, pushed,
                             attempts, waits, err>>
    /\ UNCHANGED <<retryRun, mergeRun, maxDepth, maxPages, site, agents, pauses, userAgentIdx, refused, openPages,
                   signals, shutdownPending>>

\* --------------------------------------------------------- crawlPage(): steps
\* the `finally` of an attempt whose `catch` is over, when no page.close() has
\* to be awaited (page is still undefined): the visit ends, or the next
\* attempt calls browser.newPage()
AfterAttempt(n) == IF n > MAX_RETRIES THEN "delay" ELSE "newPage"

\* crawl() going on to the next entry without the pause
rateLimit_None(ps) == ps

\* `await new Promise((r) => setTimeout(r, config.CRAWL.REQUEST_DELAY))` after
\* crawlPage has returned: the delays set so far, and this one
rateLimit(ps) == Append(ps, REQUEST_DELAY)

\* the delay with `2 ** (retries - 1)` for `retries`
retryDelay_Exponential(k) == RETRY_DELAY * 2 ^ (k - 1)

\* `config.RETRY_DELAY * retries`: the delay before the retry that follows the
\* k-th failed attempt
retryDelay(k) == RETRY_DELAY * k

\* the `catch` with `retries >= config.MAX_RETRIES` for `>`
Catch_GiveUpEarly(message) ==
    /\ retries' = retries + 1
    /\ err' = message
    /\ IF retries + 1 >= MAX_RETRIES
       THEN /\ result' = addError(result, item.url, message)
            /\ waits' = waits
            /\ pc' = IF page = "undefined" THEN "delay" ELSE "pageClose"
            /\ pauses' = IF page = "undefined" THEN rateLimit(pauses) ELSE pauses
       ELSE /\ result' = result
            /\ waits' = Append(waits, retryDelay(retries + 1))
            /\ pc' = "backoff"
            /\ pauses' = pauses

\* the `catch` with addError called for every failed attempt
Catch_RecordsEach(message) ==
    /\ retries' = retries + 1
    /\ err' = message
    /\ result' = addError(result, item.url, message)
    /\ IF retries + 1 > MAX_RETRIES
       THEN /\ waits' = waits
            /\ pc' = IF page = "undefined" THEN "delay" ELSE "pageClose"
            /\ pauses' = IF page = "undefined" THEN rateLimit(pauses) ELSE pauses
       ELSE /\ waits' = Append(waits, retryDelay(retries + 1))
            /\ pc' = "backoff"
            /\ pauses' = pauses

\* the `catch` without `retries++`
Catch_NoCount(message) ==
    /\ retries' = retries
    /\ err' = message
    /\ result' = result
    /\ waits' = waits
    /\ pc' = "backoff"
    /\ pauses' = pauses

\* the `catch` of an attempt that threw `message`
Catch(message) ==
    /\ retries' = retries + 1
    /\ err' = message
    /\ IF retries + 1 > MAX_RETRIES
       THEN /\ result' = addError(result, item.url, message)
            /\ waits' = waits
            /\ pc' = IF page = "undefined" THEN "delay" ELSE "pageClose"
            /\ pauses' = IF page = "undefined" THEN rateLimit(pauses) ELSE pauses
       ELSE /\ result' = result
            /\ waits' = Append(waits, retryDelay(retries + 1))
            /\ pc' = "backoff"
            /\ pauses' = pauses

\* getNextUserAgent() without `this.userAgentIdx++`
getNextUserAgent_NoAdvance(idx) ==
    [ua |-> USER_AGENTS[(idx % Len(USER_AGENTS)) + 1], idx |-> idx]

\* WebCrawler.getNextUserAgent on userAgentIdx = idx: the agent returned
\* (USER_AGENTS is indexed from 1 here) and the index left
getNextUserAgent(idx) ==
    [ua |-> USER_AGENTS[(idx % Len(USER_AGENTS)) + 1], idx |-> idx + 1]

\* `await this.browser.newPage()` completes
NewPageDone ==
    /\ pc = "newPage" /\ ~exited
    /\ \E opened \in BOOLEAN :
         IF opened
         THEN /\ page' = "open"
              /\ openPages' = openPages + 1
              /\ userAgentIdx' = getNextUserAgent(userAgentIdx).idx
              /\ agents' = Append(agents, getNextUserAgent(userAgentIdx).ua)
              /\ pc' = "fetch"
              /\ UNCHANGED <<retries, result, waits, err, pauses>>
         ELSE /\ Catch("Protocol error")
              /\ UNCHANGED <<page, openPages, userAgentIdx, agents>>
    /\ UNCHANGED <<retryRun, mergeRun, maxDepth, maxPages, site, queue, visited, browser, item, refused, signals, shutdownPending, closeCalls, finalizeCalls,
                   report, exited, exitCode, visits, pushed, attempts>>

\* the awaits from page.setUserAgent to extractPageData throw
FetchFail ==
    /\ pc = "fetch" /\ ~exited
    /\ Catch("Protocol error")
    /\ UNCHANGED <<retryRun, mergeRun, maxDepth, maxPages, site, agents, queue, visited, browser, userAgentIdx, item,
                   page, refused, openPages, signals, shutdownPending,
                   closeCalls, finalizeCalls, report, exited, exitCode, visits, pushed,
                   attempts>>

\* the test with `<=` for `<`
followsLinks_Inclusive(depth, limit) == depth <= limit

\* `if (depth < this.maxDepth)`: the links of a page of this depth are followed
followsLinks(depth, limit) == depth < limit

\* the test with 500 for 400
isHttpError_ServerOnly(statusCode) == statusCode >= 500

\* `if (statusCode >= 400) throw new Error(...)`
isHttpError(statusCode) == statusCode >= 400

\* the attempt with the link discovery moved before the status test: the
\* links of an error page are queued too
FetchDone_LinksFirst ==
    /\ pc = "fetch" /\ ~exited
    /\ \E statusCode \in Statuses, links \in LinkLists(site), media \in PageMedia :
         LET pageData == [url |-> item.url, depth |-> item.depth,
                          statusCode |-> statusCode, links |-> Len(links),
                          images |-> media.images, tables |-> media.tables]
             found == filterLinks(links)
             r == addLinks(queue, visited, found, item.depth + 1, maxPages, {})
         IN /\ IF followsLinks(item.depth, maxDepth)
               THEN /\ queue' = r.queue
                    /\ visited' = r.visited
                    /\ pushed' = pushed \o SubSeq(r.queue, Len(queue) + 1, Len(r.queue))
                    /\ refused' = r.whys \ {"admitted"}
               ELSE UNCHANGED <<queue, visited, pushed, refused>>
            /\ IF isHttpError(statusCode)
               THEN Catch("HTTP error")
               ELSE /\ result' = addPage(result, pageData)
                    /\ pc' = "pageCloseBreak"
                    /\ UNCHANGED <<retries, waits, err, pauses>>
    /\ UNCHANGED <<retryRun, mergeRun, maxDepth, maxPages, site, agents, browser, userAgentIdx, item, page, openPages,
                   signals, shutdownPending, closeCalls, finalizeCalls, report,
                   exited, exitCode, visits, attempts>>

\* page.goto answers with a status, and for a status below 400 the page data
\* is extracted, its links are queued and the page is recorded
FetchDone ==
    /\ pc = "fetch" /\ ~exited
    /\ \E statusCode \in Statuses, links \in LinkLists(site), media \in PageMedia :
         IF isHttpError(statusCode)
         THEN /\ links = <<>>
              /\ Catch("HTTP error")
              /\ UNCHANGED <<queue, visited, pushed, refused>>
         ELSE LET pageData == [url |-> item.url, depth |-> item.depth,
                               statusCode |-> statusCode, links |-> Len(links),
                               images |-> media.images, tables |-> media.tables]
                  found == filterLinks(links)
                  r == addLinks(queue, visited, found, item.depth + 1, maxPages, {})
              IN /\ IF followsLinks(item.depth, maxDepth)
                    THEN /\ queue' = r.queue
                         /\ visited' = r.visited
                         /\ pushed' = pushed \o SubSeq(r.queue, Len(queue) + 1, Len(r.queue))
                         /\ refused' = r.whys \ {"admitted"}
                    ELSE UNCHANGED <<queue, visited, pushed, refused>>
                 /\ result' = addPage(result, pageData)
                 /\ pc' = "pageCloseBreak"
                 /\ UNCHANGED <<retries, waits, err, pauses>>
    /\ UNCHANGED <<retryRun, mergeRun, maxDepth, maxPages, site, agents, browser, userAgentIdx, item, page, openPages,
                   signals, shutdownPending, closeCalls, finalizeCalls, report,
                   exited, exitCode, visits, attempts>>

\* the retry timer (RETRY_DELAY * retries) fires: `finally`, then the next attempt
BackoffDone ==
    /\ pc = "backoff" /\ ~exited
    /\ pc' = IF page = "undefined" THEN "newPage" ELSE "pageClose"
    /\ attempts' = IF page = "undefined" THEN attempts + 1 ELSE attempts
    /\ err' = "none"
    /\ UNCHANGED <<retryRun, mergeRun, maxDepth, maxPages, site, agents, pauses, queue, visited, result, browser, userAgentIdx,
                   item, retries, page, refused, openPages, signals,
                   shutdownPending, closeCalls, finalizeCalls, report, exited,
                   exitCode, visits, pushed, waits>>

\* the `finally` without `page.close()`: the page of the attempt stays open
PageCloseDone_Leaks ==
    /\ pc \in {"pageClose", "pageCloseBreak"} /\ ~exited
    /\ UNCHANGED <<openPages, page>>
    /\ IF pc = "pageCloseBreak"
       THEN /\ pc' = "delay" /\ refused' = {} /\ attempts' = attempts
            /\ pauses' = rateLimit(pauses)
       ELSE /\ pc' = AfterAttempt(retries)
            /\ refused' = refused
            /\ attempts' = IF AfterAttempt(retries) = "newPage"
                            THEN attempts + 1 ELSE attempts
            /\ pauses' = IF AfterAttempt(retries) = "delay"
                          THEN rateLimit(pauses) ELSE pauses
    /\ UNCHANGED <<retryRun, mergeRun, maxDepth, maxPages, site, agents, queue, visited, result, browser, userAgentIdx,
                   item, retries, signals, shutdownPending, closeCalls,
                   finalizeCalls, report, exited, exitCode, visits, pushed,
                   waits, err>>

\* `await page.close()` of `finally` completes: the visit is over (break, or
\* retries exhausted) and crawl() waits REQUEST_DELAY, or the next attempt starts
PageCloseDone ==
    /\ pc \in {"pageClose", "pageCloseBreak"} /\ ~exited
    /\ openPages' = IF page = "open" THEN openPages - 1 ELSE openPages
    /\ page' = "closed"
    /\ IF pc = "pageCloseBreak"
       THEN /\ pc' = "delay" /\ refused' = {} /\ attempts' = attempts
            /\ pauses' = rateLimit(pauses)
       ELSE /\ pc' = AfterAttempt(retries)
            /\ refused' = refused
            /\ attempts' = IF AfterAttempt(retries) = "newPage"
                            THEN attempts + 1 ELSE attempts
            /\ pauses' = IF AfterAttempt(retries) = "delay"
                          THEN rateLimit(pauses) ELSE pauses
    /\ UNCHANGED <<retryRun, mergeRun, maxDepth, maxPages, site, agents, queue, visited, result, browser, userAgentIdx,
                   item, retries, signals, shutdownPending, closeCalls,
                   finalizeCalls, report, exited, exitCode, visits, pushed,
                   waits, err>>

\* the rate-limit timer (REQUEST_DELAY) fires: back to the top of the loop
DelayDone ==
    /\ pc = "delay" /\ ~exited
    /\ LoopTop(queue)
    /\ UNCHANGED <<retryRun, mergeRun, maxDepth, maxPages, site, agents, pauses, visited, browser, userAgentIdx, refused, openPages, signals, shutdownPending, pushed>>

\* `await this.browser.close()` of main()'s cleanup() completes: main() returns
MainCloseDone ==
    /\ pc = "closing" /\ ~exited
    /\ pc' = "done"
    /\ exited' = TRUE
    /\ exitCode' = 0
    /\ UNCHANGED <<retryRun, mergeRun, maxDepth, maxPages, site, agents, pauses, queue, visited, result, browser, userAgentIdx,
                   item, retries, page, refused, openPages, signals,
                   shutdownPending, closeCalls, finalizeCalls, report, visits, pushed,
                   attempts, waits, err>>

\* ---------------------------------------------------------- signal handlers
\* shutdown() with a call of crawler.result.finalize() before saveResults()
Signal_Finalizes ==
    /\ ~exited /\ signals < MaxSignals
    /\ signals' = signals + 1
    /\ result' = finalize(result)
    /\ finalizeCalls' = finalizeCalls + 1
    /\ \E saved \in BOOLEAN :
         report' = IF saved THEN <<Snapshot(finalize(result))>> ELSE report
    /\ IF browser = "null"
       THEN /\ exited' = TRUE
            /\ exitCode' = 0
            /\ UNCHANGED <<closeCalls, shutdownPending>>
       ELSE /\ closeCalls' = closeCalls + 1
            /\ shutdownPending' = shutdownPending + 1
            /\ UNCHANGED <<exited, exitCode>>
    /\ UNCHANGED <<retryRun, mergeRun, maxDepth, maxPages, site, agents, pauses, queue, visited, browser, userAgentIdx,
                   pc, item, retries, page, refused, openPages,
                   visits, pushed, attempts, waits, err>>

\* SIGINT or SIGTERM is delivered: shutdown() runs saveResults() (a failure is
\* logged), then cleanup(): with a browser it awaits browser.close(), without
\* one it goes on to process.exit(0)
Signal ==
    /\ ~exited /\ signals < MaxSignals
    /\ signals' = signals + 1
    /\ \E saved \in BOOLEAN :
         report' = IF saved THEN <<Snapshot(result)>> ELSE report
    /\ IF browser = "null"
       THEN /\ exited' = TRUE
            /\ exitCode' = 0
            /\ UNCHANGED <<closeCalls, shutdownPending>>
       ELSE /\ closeCalls' = closeCalls + 1
            /\ shutdownPending' = shutdownPending + 1
            /\ UNCHANGED <<exited, exitCode>>
    /\ UNCHANGED <<retryRun, mergeRun, maxDepth, maxPages, site, agents, pauses, queue, visited, result, browser, userAgentIdx,
                   pc, item, retries, page, refused, openPages,
                   finalizeCalls, visits, pushed, attempts, waits, err>>

\* `await crawler.cleanup()` of a shutdown() completes: process.exit(0)
ShutdownExit ==
    /\ ~exited /\ shutdownPending > 0
    /\ exited' = TRUE
    /\ exitCode' = 0
    /\ UNCHANGED <<retryRun, mergeRun, maxDepth, maxPages, site, agents, pauses, queue, visited, result, browser, userAgentIdx,
                   pc, item, retries, page, refused, openPages, signals,
                   shutdownPending, closeCalls, finalizeCalls, report, visits, pushed,
                   attempts, waits, err>>

Next ==
    \/ LaunchDone
    \/ NewPageDone
    \/ FetchFail
    \/ FetchDone
    \/ BackoffDone
    \/ PageCloseDone
    \/ DelayDone
    \/ MainCloseDone
    \/ Signal
    \/ ShutdownExit

Spec == Init /\ [][Next]_vars

\* ------------------------------------------------- runs that get no signal
\* a run with a budget and a depth limit that let a page of depth 1 have its
\* own links visited after its siblings
InitDeep == InitWith({MaxDepthOpt + 1}, {MaxPagesOpt + 2}, DeepLinks)

NextUncancelled ==
    \/ LaunchDone
    \/ NewPageDone
    \/ FetchFail
    \/ FetchDone
    \/ BackoffDone
    \/ PageCloseDone
    \/ DelayDone
    \/ MainCloseDone

SpecDeep == InitDeep /\ [][NextUncancelled]_vars

\* runs that get no signal and in which every await of main() settles and
\* every timer fires: in each state at most one continuation of main() is
\* pending, and it eventually runs
SpecUncancelled ==
    Init /\ [][NextUncancelled]_vars /\ WF_vars(NextUncancelled)

\* runs that get no signal, on the site of RawLinks, with a budget that lets
\* one page put two of its links into the frontier
InitLinks == InitWith({MaxDepthOpt}, {MaxPagesOpt + 1}, RawLinks)

SpecLinks == InitLinks /\ [][NextUncancelled]_vars

\* ------------------------------------------- CrawlResult, called directly
\* a CrawlResult just constructed, whose methods a caller invokes in any
\* order; `err` holds what the latest call threw ("none": it returned)
InitResult == InitWith({0}, {0}, {})

PageInputs ==
    [url : {normalize(u) : u \in DeepLinks}, depth : {0}, statusCode : {200},
     links : 0..MaxLinks, images : {2}, tables : {1}]

Recorded == Len(result.pages) + Len(result.errors)

\* result.addPage(pageData): no statement of it throws or tests endTime
CallAddPage ==
    /\ Recorded < MaxCalls
    /\ \E pageData \in PageInputs : result' = addPage(result, pageData)
    /\ err' = "none"
    /\ UNCHANGED <<retryRun, mergeRun, maxDepth, maxPages, site, agents, pauses, queue, visited, browser, userAgentIdx,
                   pc, item, retries, page, refused, openPages, signals,
                   shutdownPending, closeCalls, finalizeCalls, report, exited,
                   exitCode, visits, pushed, attempts, waits>>

\* result.addError(url, error), error being an Error
CallAddError ==
    /\ Recorded < MaxCalls
    /\ \E u \in DeepLinks, message \in {"HTTP error", "Protocol error"} :
         result' = addError(result, normalize(u), message)
    /\ err' = "none"
    /\ UNCHANGED <<retryRun, mergeRun, maxDepth, maxPages, site, agents, pauses, queue, visited, browser, userAgentIdx,
                   pc, item, retries, page, refused, openPages, signals,
                   shutdownPending, closeCalls, finalizeCalls, report, exited,
                   exitCode, visits, pushed, attempts, waits>>

\* result.finalize()
CallFinalize ==
    /\ finalizeCalls < 2
    /\ result' = finalize(result)
    /\ finalizeCalls' = finalizeCalls + 1
    /\ err' = "none"
    /\ UNCHANGED <<retryRun, mergeRun, maxDepth, maxPages, site, agents, pauses, queue, visited, browser, userAgentIdx,
                   pc, item, retries, page, refused, openPages, signals,
                   shutdownPending, closeCalls, report, exited, exitCode,
                   visits, pushed, attempts, waits>>

NextResult ==
    \/ CallAddPage
    \/ CallAddError
    \/ CallFinalize

SpecResult == InitResult /\ [][NextResult]_vars

\* ---------------------------------------------- URLQueue, called directly
\* a URLQueue just constructed, whose add() and next() a caller invokes in
\* any order with the hrefs of AliasLinks
InitQueue == InitWith({MaxDepthOpt}, {MaxPagesOpt + 1}, AliasLinks)

\* queue.add(url, depth)
CallAdd ==
    /\ \E u \in site, d \in 0..maxDepth :
         LET r == add(queue, visited, u, d, maxPages)
         IN /\ queue' = r.queue
            /\ visited' = r.visited
            /\ pushed' = pushed \o SubSeq(r.queue, Len(queue) + 1, Len(r.queue))
            /\ refused' = IF r.ok THEN {} ELSE {r.why}
    /\ UNCHANGED <<retryRun, mergeRun, maxDepth, maxPages, site, agents, pauses, result, browser, userAgentIdx,
                   pc, item, retries, page, openPages, signals, shutdownPending,
                   closeCalls, finalizeCalls, report, exited, exitCode, visits,
                   attempts, waits, err>>

\* queue.next() while queue.hasMore()
CallNext ==
    /\ queue # <<>>
    /\ item' = next(queue).item
    /\ queue' = next(queue).rest
    /\ UNCHANGED <<retryRun, mergeRun, maxDepth, maxPages, site, agents, pauses, visited, result, browser,
                   userAgentIdx, pc, retries, page, refused, openPages, signals,
                   shutdownPending, closeCalls, finalizeCalls, report, exited,
                   exitCode, visits, pushed, attempts, waits, err>>

NextQueue ==
    \/ CallAdd
    \/ CallNext

SpecQueue == InitQueue /\ [][NextQueue]_vars

\* the variables of the crawler, which the scripts of quests 1 and 2 leave alone
crawlerVars ==
    <<maxDepth, maxPages, queue, visited, result, browser, userAgentIdx, pc,
      item, retries, page, refused, openPages, signals, shutdownPending,
      closeCalls, finalizeCalls, report, exited, exitCode, visits, pushed,
      attempts, waits, err, site, pauses, agents>>

\* ------------------------------------------------- quest 1: withRetry()
FnValues == {"v1", "v2"}                \* what fn() resolves with
FnErrors == {"timeout", "refused"}      \* err.message of what fn() rejects with

\* withRetry(fn, description, retries) has been called and has run nothing
InitRetry ==
    /\ CrawlerInit({0}, {0}, {})
    /\ mergeRun = NoMergeRun
    /\ retryRun \in
          [pc : {"start"}, retries : (0..MaxRetriesArg) \cup {Q1_MAX_RETRIES},
           attempt : {1}, calls : {<<>>}, delays : {<<>>},
           outcome : {[status |-> "pending", value |-> "none"]}]

\* the body up to its first await: `attempt = 1`, the loop test, and the
\* call of fn(); with no pass of the loop the function returns undefined
WithRetryCall ==
    /\ retryRun.pc = "start"
    /\ retryRun' =
          IF retryRun.attempt <= retryRun.retries
          THEN [retryRun EXCEPT
                  !.calls = Append(@, [status |-> "pending", value |-> "none"]),
                  !.pc = "fn"]
          ELSE [retryRun EXCEPT
                  !.outcome = [status |-> "fulfilled", value |-> "undefined"],
                  !.pc = "returned"]
    /\ UNCHANGED <<crawlerVars, mergeRun>>

\* `return await fn()`: the promise of fn() is fulfilled
FnFulfils ==
    /\ retryRun.pc = "fn"
    /\ \E v \in FnValues :
         retryRun' =
            [retryRun EXCEPT
               !.calls[Len(retryRun.calls)] = [status |-> "fulfilled", value |-> v],
               !.outcome = [status |-> "fulfilled", value |-> v],
               !.pc = "returned"]
    /\ UNCHANGED <<crawlerVars, mergeRun>>

\* the promise of fn() is rejected: the catch rethrows after the last
\* attempt, and sets the timer of RETRY_DELAY * attempt after another
FnRejects ==
    /\ retryRun.pc = "fn"
    /\ \E e \in FnErrors :
         retryRun' =
            IF isLastAttempt(retryRun.attempt, retryRun.retries)
            THEN [retryRun EXCEPT
                    !.calls[Len(retryRun.calls)] = [status |-> "rejected", value |-> e],
                    !.outcome = [status |-> "rejected", value |-> e],
                    !.pc = "thrown"]
            ELSE [retryRun EXCEPT
                    !.calls[Len(retryRun.calls)] = [status |-> "rejected", value |-> e],
                    !.delays = Append(@, Q1_RETRY_DELAY * retryRun.attempt),
                    !.pc = "wait"]
    /\ UNCHANGED <<crawlerVars, mergeRun>>

\* the timer fires: `attempt++`, the loop test, and the next call of fn();
\* when the loop ends the function returns undefined
RetryTimerFires ==
    /\ retryRun.pc = "wait"
    /\ retryRun' =
          IF retryRun.attempt + 1 <= retryRun.retries
          THEN [retryRun EXCEPT
                  !.attempt = @ + 1,
                  !.calls = Append(@, [status |-> "pending", value |-> "none"]),
                  !.pc = "fn"]
          ELSE [retryRun EXCEPT
                  !.attempt = @ + 1,
                  !.outcome = [status |-> "fulfilled", value |-> "undefined"],
                  !.pc = "returned"]
    /\ UNCHANGED <<crawlerVars, mergeRun>>

NextRetry ==
    \/ WithRetryCall
    \/ FnFulfils
    \/ FnRejects
    \/ RetryTimerFires

SpecRetry == InitRetry /\ [][NextRetry]_vars

\* ------------------------------------------------ quest 2: mergePDFs()
SAMPLE_PAGES_A == 10       \* generateSamplePDF(10, 'Document A')
SAMPLE_PAGES_B == 3        \* generateSamplePDF(3, 'Document B')

\* the --pages-a and --pages-b options of the merges modelled: all, a span,
\* a list, a span that starts at page 0
MergeRanges ==
    { All, <<"1", "-", "2">>, <<"2", ",", "1">>, <<"0", "-", "1">> }

\* mergePDFs() has read the two files and awaits PDFDocument.load
InitMerge ==
    /\ CrawlerInit({0}, {0}, {})
    /\ retryRun = NoRetryRun
    /\ mergeRun \in
          [pc : {"load"}, order : {<<"a", "b">>, <<"b", "a">>},
           pagesA : MergeRanges, pagesB : MergeRanges,
           docA : { Document("A", n) : n \in (1..MaxDocPages) \cup {SAMPLE_PAGES_A} },
           docB : { Document("B", n) : n \in (1..MaxDocPages) \cup {SAMPLE_PAGES_B} },
           indicesA : {<<>>}, indicesB : {<<>>}, copied : {0},
           merged : {<<>>},
           returned : {[totalPages |-> 0, sourcePagesA |-> 0, sourcePagesB |-> 0]}]

\* the awaits of PDFDocument.load (A, then B) and PDFDocument.create settle:
\* the indices are computed from the page counts, or a load threw
MergeLoadDone ==
    /\ mergeRun.pc = "load"
    /\ \E loaded \in BOOLEAN :
         mergeRun' =
            IF loaded
            THEN [mergeRun EXCEPT
                    !.indicesA = parsePageRange(mergeRun.pagesA, Len(mergeRun.docA)),
                    !.indicesB = parsePageRange(mergeRun.pagesB, Len(mergeRun.docB)),
                    !.pc = "copy"]
            ELSE [mergeRun EXCEPT !.pc = "thrown"]
    /\ UNCHANGED <<crawlerVars, retryRun>>

\* `await merged.copyPages(doc, indices)` settles for the next source: its
\* pages are added to the merged document in order, or copyPages threw
MergeCopyDone ==
    /\ mergeRun.pc = "copy"
    /\ LET a == [doc |-> mergeRun.docA, indices |-> mergeRun.indicesA]
           b == [doc |-> mergeRun.docB, indices |-> mergeRun.indicesB]
           source == sources(mergeRun.order, a, b)[mergeRun.copied + 1]
           copiedPages == copyPages(source.doc, source.indices)
       IN mergeRun' =
            IF copiedPages.ok
            THEN [mergeRun EXCEPT
                    !.merged = @ \o copiedPages.pages,
                    !.copied = @ + 1,
                    !.pc = IF mergeRun.copied + 1 = 2 THEN "save" ELSE "copy"]
            ELSE [mergeRun EXCEPT !.pc = "thrown"]
    /\ UNCHANGED <<crawlerVars, retryRun>>

\* `await merged.save()` settles and the file is written: mergePDFs returns
\* the page counts, or the save or the write threw
MergeSaveDone ==
    /\ mergeRun.pc = "save"
    /\ \E saved \in BOOLEAN :
         mergeRun' =
            IF saved
            THEN [mergeRun EXCEPT
                    !.returned = [totalPages |-> Len(mergeRun.merged),
                                  sourcePagesA |-> Len(mergeRun.indicesA),
                                  sourcePagesB |-> Len(mergeRun.indicesB)],
                    !.pc = "returned"]
            ELSE [mergeRun EXCEPT !.pc = "thrown"]
    /\ UNCHANGED <<crawlerVars, retryRun>>

NextMerge ==
    \/ MergeLoadDone
    \/ MergeCopyDone
    \/ MergeSaveDone

SpecMerge == InitMerge /\ [][NextMerge]_vars

\* -------------------------------------- quest 2: parsePageRange, called directly
\* the characters of the ranges: the digits up to MaxDocPages + 1, "-", ",",
\* " " and the letters of 'all'
RangeChars ==
    { c \in DOMAIN DigitValue : DigitValue[c] <= MaxDocPages + 1 }
        \cup {"-", ",", " ", "a", "l"}

\* the strings of up to n characters
Strings(n) == UNION { [1..k -> RangeChars] : k \in 0..n }

\* parsePageRange(range, totalPages) is called with a string of up to
\* MaxRangeLen characters and a document of up to MaxDocPages pages
InitRange ==
    /\ CrawlerInit({0}, {0}, {})
    /\ retryRun = NoRetryRun
    /\ mergeRun \in
          [pc : {"call"}, range : Strings(MaxRangeLen),
           totalPages : 0..MaxDocPages, pages : {<<>>}]

\* the call returns
CallParsePageRange ==
    /\ mergeRun.pc = "call"
    /\ mergeRun' =
          [mergeRun EXCEPT
             !.pages = parsePageRange(mergeRun.range, mergeRun.totalPages),
             !.pc = "returned"]
    /\ UNCHANGED <<crawlerVars, retryRun>>

NextRange == CallParsePageRange

SpecRange == InitRange /\ [][NextRange]_vars

\* ===================================================================== claims
IsPrefix(s, t) == Len(s) <= Len(t) /\ SubSeq(t, 1, Len(s)) = s

\* a page visit is in flight: an attempt of crawlPage has started and neither
\* addPage nor addError has ended the visit
InFlight ==
    \/ pc \in {"newPage", "fetch", "backoff"}
    \/ pc = "pageClose" /\ retries <= MAX_RETRIES

\* C1: no normalized URL is handed to crawlPage more than once in a run.
C1_AtMostOnceVisit ==
    \A i, j \in 1..Len(visits) : i # j => visits[i] # visits[j]

\* C1 witness: a fetched page linked to a URL that add() refused as already
\* visited and to one it admitted, which a later visit is to be handed.
C1_Witness ==
    /\ pc = "pageCloseBreak"
    /\ "visited" \in refused
    /\ Len(visits) >= 1
    /\ Len(queue) >= 1

\* C2: once a signal has been received, no frontier entry is handed to a page
\* visit and no new fetch attempt (browser.newPage) begins.
C2_NoVisitAfterSignal ==
    [][signals > 0 =>
         /\ visits' = visits
         /\ ~(pc' = "newPage" /\ pc # "newPage")]_vars

\* C3: a written report was written after finalize(): its endTime is stamped
\* and its duration is defined, finalize() having been called exactly once.
C3_ReportAfterFinalize ==
    report # <<>> =>
        /\ report[1].endTime = "stamped"
        /\ report[1].duration = "defined"
        /\ finalizeCalls = 1

\* C4: when a cancelled run has exited and its shutdown path persisted a
\* report, every PageRecord of the in-memory result is in that report.
C4_NoPageLost ==
    (exited /\ signals > 0 /\ pc # "done" /\ report # <<>>) =>
        IsPrefix(result.pages, report[1].pages)

\* C5: the shutdown path never begins while a page visit is in flight.
C5_ShutdownAtBoundary ==
    [][signals' > signals => ~InFlight]_vars

\* C6: the report persisted when the run is cancelled holds exactly the
\* PageRecords recorded so far, and from then on no ErrorRecord is recorded:
\* not for the entries left in the frontier, not for the interrupted visit.
C6_CancelledReport ==
    [][/\ (signals = 0 /\ signals' = 1 /\ report' # <<>>) =>
              report'[1].pages = result.pages
       /\ signals > 0 => result'.errors = result.errors]_vars

\* C7: whenever the process has ended after a successful launch,
\* browser.close() has been called.
C7_BrowserReleased ==
    (exited /\ browser = "launched") => closeCalls >= 1

\* C8: totalPages is the sum of successfulPages and failedPages.
C8_TotalIsSum ==
    result.stats.totalPages =
        result.stats.successfulPages + result.stats.failedPages

\* C8 witness: addPage and addError have both been called.
C8_Witness ==
    /\ result.stats.successfulPages >= 1
    /\ result.stats.failedPages >= 1

\* C9: the visited set never holds more than maxPages URLs.
C9_VisitedWithinBudget == Cardinality(visited) <= maxPages

\* C9 witness: add() refused a new, well-formed link because visited.size had
\* reached maxPages.
C9_Witness ==
    /\ "budget" \in refused
    /\ Cardinality(visited) = maxPages
    /\ maxPages >= 2

\* C10 as stated: every entry put into the frontier queue, the seed included,
\* has depth <= maxDepth.
C10_EveryEntryWithinDepth ==
    \A e \in Entries(pushed) : e.depth <= maxDepth

\* C10 amended: every entry put into the queue for a discovered link has
\* depth <= maxDepth; the seed is put in at depth 0 whatever maxDepth is.
C10_LinkEntriesWithinDepth ==
    \A e \in Entries(pushed) :
        e.depth <= maxDepth \/ (e.depth = 0 /\ e.url = normalize(SeedUrl))

\* C10 witness: the entry of a discovered link of depth maxDepth has been
\* visited, and the page had links, which were not followed.
C10_Witness ==
    /\ maxDepth >= 1
    /\ item \in Entries(pushed)
    /\ item.depth = maxDepth
    /\ pc = "pageCloseBreak"
    /\ result.pages[Len(result.pages)].links > 0
    /\ queue = <<>>

\* C11: no PageRecord has depth > maxDepth, and an entry of depth > maxDepth
\* that was put into the frontier is popped without a page visit: it has no
\* PageRecord and no ErrorRecord, and no counter of stats counts it.
C11_NoPageBeyondDepth ==
    /\ \A i \in 1..Len(result.pages) : result.pages[i].depth <= maxDepth
    /\ \A e \in Entries(pushed) : e.depth > maxDepth =>
          /\ \A i \in 1..Len(visits) : visits[i] # e.url
          /\ \A i \in 1..Len(result.pages) : result.pages[i].url # e.url
          /\ \A i \in 1..Len(result.errors) : result.errors[i].url # e.url
          /\ result.stats.totalPages = Len(visits) - (IF InFlight THEN 1 ELSE 0)

\* C11 witness: the seed, of depth 0 > maxDepth, was popped and skipped, and
\* the run went on to finalize() with nothing recorded.
C11_Witness ==
    /\ \E e \in Entries(pushed) : e.depth > maxDepth
    /\ queue = <<>>
    /\ finalizeCalls = 1
    /\ result.pages = <<>> /\ result.errors = <<>>
    /\ result.stats.totalPages = 0

Urls(q) == [i \in 1..Len(q) |-> q[i].url]

\* C12: entries are popped in the order they were admitted (FIFO): the URLs
\* visited so far, followed by those waiting in the queue, are the admitted
\* entries of depth <= maxDepth in admission order, and the depths of
\* successively visited entries never decrease.
C12_BreadthFirst ==
    LET WithinDepth(e) == e.depth <= maxDepth
        due == SelectSeq(pushed, WithinDepth)
    IN /\ visits \o Urls(SelectSeq(queue, WithinDepth)) = Urls(due)
       /\ \A i, j \in 1..Len(visits) : i <= j => due[i].depth <= due[j].depth

\* C12 witness: the seed A linked to B and C, and B, visited second, linked
\* to D: D (depth 2) waits in the queue behind C (depth 1).
C12_Witness ==
    /\ pc = "pageCloseBreak"
    /\ Len(pushed) = 4
    /\ [i \in 1..4 |-> pushed[i].depth] = <<0, 1, 1, 2>>
    /\ visits = <<pushed[1].url, pushed[2].url>>
    /\ queue = <<pushed[3], pushed[4]>>

\* the ErrorRecords and the PageRecords of a URL
ErrorsOf(url) == SelectSeq(result.errors, LAMBDA e : e.url = url)
PagesOf(url) == SelectSeq(result.pages, LAMBDA r : r.url = url)

\* C13: a page visit makes at most MAX_RETRIES + 1 attempts, and exactly
\* MAX_RETRIES + 1 when every attempt failed (the visit ended in an ErrorRecord).
C13_AttemptsBounded ==
    /\ attempts <= MAX_RETRIES + 1
    /\ ErrorsOf(item.url) # <<>> => attempts = MAX_RETRIES + 1

\* C13 witness: the fourth attempt of a visit failed and the visit is over.
C13_Witness ==
    /\ ErrorsOf(item.url) # <<>>
    /\ attempts = MAX_RETRIES + 1
    /\ ~InFlight

C15_SuccessAfterRetries ==
    PagesOf(item.url) # <<>> =>
        /\ Len(PagesOf(item.url)) = 1
        /\ ErrorsOf(item.url) = <<>>
        /\ attempts <= MAX_RETRIES + 1
        /\ Len(waits) = attempts - 1

\* C15 witness: two attempts failed, the third one recorded the page.
C15_Witness ==
    /\ pc = "pageCloseBreak"
    /\ attempts = 3
    /\ Len(waits) = 2
    /\ PagesOf(item.url) # <<>>

\* C16: when every attempt of a visit failed, the URL has exactly one
\* ErrorRecord, carrying the message of the last failed attempt, and no
\* PageRecord; the failure does not end the run: after the request delay the
\* loop hands the next frontier entry to a visit.
C16_OneErrorThenNext ==
    /\ [](ErrorsOf(item.url) # <<>> =>
            /\ ErrorsOf(item.url) = <<[url |-> item.url, error |-> err]>>
            /\ PagesOf(item.url) = <<>>
            /\ pc \in {"pageClose", "delay"} => ~exited)
    /\ [][(/\ pc = "delay"
           /\ ErrorsOf(item.url) # <<>>
           /\ queue # <<>>
           /\ result.stats.successfulPages < maxPages)
          => /\ pc' = "newPage"
             /\ item' = Head(queue)
             /\ visits' = Append(visits, Head(queue).url)]_vars

\* C16 witness: the second visit ended in an ErrorRecord while another entry
\* waited in the queue, and that entry is now being visited.
C16_Witness ==
    /\ Len(visits) >= 3
    /\ pc = "newPage"
    /\ ErrorsOf(visits[2]) = <<[url |-> visits[2], error |-> "Protocol error"]>>
    /\ item.url = visits[3]
    /\ result.stats.failedPages = 1

\* C17: an attempt that ends in a transport failure or in an HTTP status of
\* 400 or more is a failed attempt: it yields no PageRecord (no PageRecord
\* carries such a status, and a visit whose attempts so far all failed has
\* no record at all), and while retries remain it is followed, after its
\* retry delay, by the next attempt: every failure is matched by a new
\* browser.newPage() call.
C17_FailedAttemptRetried ==
    /\ \A i \in 1..Len(result.pages) : result.pages[i].statusCode < 400
    /\ InFlight => (PagesOf(item.url) = <<>> /\ ErrorsOf(item.url) = <<>>)
    /\ pc \in {"newPage", "fetch"} => attempts = retries + 1
    /\ (pc = "backoff" \/ (pc = "pageClose" /\ retries <= MAX_RETRIES)) =>
          (retries \in 1..MAX_RETRIES /\ attempts = retries)

\* C17 witness: the first attempt opened its page and then failed (a throw of
\* the fetch, or a status of 400 or more); nothing was recorded, the retry
\* delay was set and the second attempt has begun.
C17_Witness ==
    /\ pc = "newPage"
    /\ attempts = 2
    /\ waits = <<RETRY_DELAY>>
    /\ page = "closed"
    /\ result.pages = <<>> /\ result.errors = <<>>

\* C18: when the browser launch of init() fails, the run ends before any
\* frontier work: the seed was never added, no visit was started, nothing
\* was recorded and no report was written.
C18_InitFailureAborts ==
    (exited /\ exitCode = 1 /\ browser = "null") =>
        /\ pushed = <<>> /\ visited = {} /\ queue = <<>>
        /\ visits = <<>> /\ attempts = 0
        /\ result = NewCrawlResult
        /\ report = <<>>

\* C18 witness: puppeteer.launch threw and main() has exited with 1.
C18_Witness ==
    /\ exited /\ exitCode = 1
    /\ browser = "null"
    /\ pc = "exited"

\* C19: the process exits with code 0 on every completed or cancelled run
\* and with a non-zero code only when initialization failed; a failure to
\* write the report after a completed crawl does not make it non-zero.
C19_NonZeroOnlyOnInitFailure ==
    (exited /\ exitCode # 0) => (browser = "null" /\ finalizeCalls = 0)

\* C20: a call of addPage or addError on a finalized CrawlResult fails fast:
\* it throws and leaves pages, errors and stats as they were.
C20_NoRecordAfterFinalize ==
    [][(result.endTime # "null" /\ finalizeCalls' = finalizeCalls) =>
          /\ result'.pages = result.pages
          /\ result'.errors = result.errors
          /\ result'.stats = result.stats
          /\ err' # "none"]_vars

Visiting == pc \in {"newPage", "fetch", "backoff", "pageClose", "pageCloseBreak"}

\* C22: every processed frontier entry, whether its visit ended in a
\* PageRecord or in an ErrorRecord, is followed by one pause of REQUEST_DELAY
\* before the next entry is popped: the entries popped are the pauses set,
\* plus the entry being visited.
C22_PauseAfterEachEntry ==
    /\ \A i \in 1..Len(pauses) : pauses[i] = REQUEST_DELAY
    /\ Len(visits) = Len(pauses) + (IF Visiting THEN 1 ELSE 0)
    /\ ~Visiting => Len(pauses) = result.stats.totalPages

\* C22 witness: one visit ended in a PageRecord and the next in an
\* ErrorRecord, and the pause after the second is running.
C22_Witness ==
    /\ pc = "delay"
    /\ result.stats.successfulPages = 1
    /\ result.stats.failedPages = 1
    /\ pauses = <<REQUEST_DELAY, REQUEST_DELAY>>

C24_QueuedIsVisited ==
    /\ \A e \in Entries(queue) : e.url \in visited
    /\ \A e \in Entries(queue), u \in site :
          e.url = normalize(u) =>
              LET again == add(queue, visited, u, e.depth, maxPages)
              IN ~again.ok /\ again.queue = queue /\ again.visited = visited

\* C24 witness: a page's links put an entry into the queue, and add() refused
\* one of them as already visited.
C24_Witness ==
    /\ pc = "pageCloseBreak"
    /\ queue # <<>>
    /\ Head(queue).url \in visited
    /\ "visited" \in refused

\* the entries of q whose URL is url
Queued(q, url) == SelectSeq(q, LAMBDA e : e.url = url)

\* C25: for every URL u and depths d, d2, add(u, d) followed by add(u, d2)
\* admits u at most once: the second call returns false and leaves the queue
\* and the visited set as the first call left them.
C25_IdempotentDedup ==
    \A u \in site, d \in {0, MaxDepthOpt}, d2 \in {0, MaxDepthOpt} :
        LET first == add(queue, visited, u, d, maxPages)
            second == add(first.queue, first.visited, u, d2, maxPages)
        IN /\ ~second.ok
           /\ second.queue = first.queue
           /\ second.visited = first.visited
           /\ normalize(u) # Null => Len(Queued(second.queue, normalize(u))) <= 1

\* C25 witness: add() admitted a URL and refused it when called again, and
\* a further URL would be admitted by the first of two calls.
C25_Witness ==
    /\ Len(pushed) = 1
    /\ refused = {"visited"}
    /\ \E u \in site :
          LET first == add(queue, visited, u, 1, maxPages)
          IN /\ first.ok
             /\ ~add(first.queue, first.visited, u, 0, maxPages).ok

\* a path without one trailing "/" (the root path is kept)
StripSlash(path) ==
    IF Len(path) > 1 /\ path[Len(path)] = "/"
    THEN SubSeq(path, 1, Len(path) - 1) ELSE path

\* two parsable URLs that differ at most in the fragment and in one trailing
\* "/" of the path
SameUpToSlashAndFragment(u1, u2) ==
    /\ ~u1.bad /\ ~u2.bad
    /\ u1.hostname = u2.hostname
    /\ u1.search = u2.search
    /\ StripSlash(u1.pathname) = StripSlash(u2.pathname)

\* C26: normalization strips the fragment and one trailing "/" of the path,
\* and of two URLs that differ only in these at most one is ever admitted:
\* they normalize to the same string, and add() of the one followed by add()
\* of the other does not admit both.
C26_AliasesAdmittedOnce ==
    \A u1 \in site, u2 \in site :
        SameUpToSlashAndFragment(u1, u2) =>
            LET first == add(queue, visited, u1, 0, maxPages)
                second == add(first.queue, first.visited, u2, 0, maxPages)
            IN /\ normalize(u1) = normalize(u2)
               /\ ~(first.ok /\ second.ok)

\* C27: add() given a malformed URL, an already visited URL, or called when
\* visited.size >= maxPages returns false (it throws nothing: normalize()
\* catches the parse error) and leaves the queue and the visited set unchanged.
C27_RefusalHasNoEffect ==
    \A u \in site, d \in 0..maxDepth :
        LET r == add(queue, visited, u, d, maxPages)
        IN (\/ normalize(u) = Null
            \/ normalize(u) \in visited
            \/ Cardinality(visited) >= maxPages)
           => (~r.ok /\ r.queue = queue /\ r.visited = visited)

\* C27 witness: with the budget used up, add() has refused a new URL; an
\* unparsable and an already visited one would be refused as well.
C27_Witness ==
    /\ Cardinality(visited) = maxPages
    /\ refused = {"budget"}
    /\ add(queue, visited, Malformed, 0, maxPages).why = "malformed"
    /\ \E u \in site : add(queue, visited, u, 0, maxPages).why = "visited"

\* hostname h is the base host, or a name that ends with "." and the base host
OnBaseDomain(h) ==
    \/ h = BaseHost
    \/ /\ Len(h) > Len(BaseHost)
       /\ h[Len(h) - Len(BaseHost)] = "."
       /\ \A i \in 1..Len(BaseHost) : h[Len(h) - Len(BaseHost) + i] = BaseHost[i]

\* C28: a link survives filterLinks if and only if it parses and its hostname
\* is the base host or ends with "." and the base host: of sub.a.com/y,
\* nota.com/y and an unparsable href only the first survives, and every entry
\* put into the frontier is on the base host or on a subdomain of it.
C28_SameDomainFilter ==
    /\ \A href \in site :
          filterLinks(<<href>>) =
              IF ~href.bad /\ OnBaseDomain(href.hostname) THEN <<href>> ELSE <<>>
    /\ filterLinks(<<Url(SubHost, <<"/", "y">>, <<>>, <<>>),
                     Url(OtherHost, <<"/", "y">>, <<>>, <<>>),
                     Malformed>>)
          = <<Url(SubHost, <<"/", "y">>, <<>>, <<>>)>>
    /\ \A e \in Entries(pushed) :
          IsPrefix(BaseHost \o <<"/">>, e.url \o <<"/">>)
              \/ IsPrefix(SubHost \o <<"/">>, e.url \o <<"/">>)

\* C28 witness: a page with links has been fetched and the entry of its
\* subdomain link waits in the frontier.
C28_Witness ==
    /\ pc = "pageCloseBreak"
    /\ result.pages[1].links = MaxLinks
    /\ queue = <<[url |-> SubHost \o <<"/", "y">>, depth |-> 1]>>

\* C29: the i-th call of getNextUserAgent in a run, counted from 0 over all
\* visits and retries, returns USER_AGENTS[i mod 3] (the element i mod 3 + 1
\* of the sequence here), and userAgentIdx is the number of calls made: it is
\* never reset.
C29_UserAgentRoundRobin ==
    /\ userAgentIdx = Len(agents)
    /\ \A n \in 1..Len(agents) :
          LET i == n - 1
          IN /\ i % 3 = 0 => agents[n] = "Chrome/120"
             /\ i % 3 = 1 => agents[n] = "Firefox/121"
             /\ i % 3 = 2 => agents[n] = "Chrome/119"

\* C29 witness: the second visit, at its third attempt, made the fourth call,
\* which returned the first agent of the pool again.
C29_Witness ==
    /\ Len(visits) = 2
    /\ attempts = 3
    /\ agents = <<"Chrome/120", "Firefox/121", "Chrome/119", "Chrome/120">>

\* C30: the retry delays of a visit grow exponentially with the number of
\* failed attempts: each delay is a fixed multiple, greater than one, of the
\* delay before it (the delays form a geometric sequence).
C30_ExponentialBackoff ==
    /\ \A k \in 2..Len(waits) : waits[k] > waits[k - 1]
    /\ \A k \in 2..(Len(waits) - 1) :
          waits[k] * waits[k] = waits[k - 1] * waits[k + 1]

\* the links of list f that add() admits when they are offered one by one in
\* the order of f: a link is admitted when its normalized URL is neither in
\* the visited set nor that of a link before it, and the visited set, with
\* the links before it, is below the budget
AdmittedOf(f, v, depth, limit) ==
    LET Before(i) == { normalize(f[j]) : j \in 1..(i - 1) }
        Admits(i) == /\ normalize(f[i]) \notin v \cup Before(i)
                     /\ Cardinality(v \cup Before(i)) < limit
        idx == SelectSeq([i \in 1..Len(f) |-> i], Admits)
    IN [k \in 1..Len(idx) |-> [url |-> normalize(f[idx[k]]), depth |-> depth]]

\* the pages of the document `label` that the indices select, in their order
Selected(label, indices) ==
    [k \in 1..Len(indices) |-> [doc |-> label, page |-> indices[k] + 1]]

\* C31: the merged document has as many pages as were selected from A plus
\* those selected from B (10 + 3 = 13 for the sample documents and the range
\* 'all'), and it is the selected pages of the first source of the chosen
\* order ('ab': A, 'ba': B) followed by those of the second; mergePDFs
\* returns these counts.
C31_MergedPages ==
    LET fromA == Selected("A", mergeRun.indicesA)
        fromB == Selected("B", mergeRun.indicesB)
        first == IF mergeRun.order = <<"a", "b">> THEN fromA ELSE fromB
        second == IF mergeRun.order = <<"a", "b">> THEN fromB ELSE fromA
    IN /\ (mergeRun.pc = "copy" /\ mergeRun.copied = 1) => mergeRun.merged = first
       /\ mergeRun.pc \in {"save", "returned"} =>
             /\ mergeRun.merged = first \o second
             /\ Len(mergeRun.merged) =
                    Len(mergeRun.indicesA) + Len(mergeRun.indicesB)
             /\ (mergeRun.pagesA = All /\ mergeRun.pagesB = All) =>
                    Len(mergeRun.merged) = Len(mergeRun.docA) + Len(mergeRun.docB)
       /\ mergeRun.pc = "returned" =>
             mergeRun.returned =
                 [totalPages |-> Len(mergeRun.indicesA) + Len(mergeRun.indicesB),
                  sourcePagesA |-> Len(mergeRun.indicesA),
                  sourcePagesB |-> Len(mergeRun.indicesB)]

\* C31 witness: the sample documents of 10 and 3 pages were merged in the
\* order 'ba' with the range 'all': 13 pages, the 3 of B before the 10 of A.
C31_Witness ==
    /\ mergeRun.pc = "returned"
    /\ mergeRun.order = <<"b", "a">>
    /\ mergeRun.pagesA = All /\ mergeRun.pagesB = All
    /\ mergeRun.returned.totalPages = 13
    /\ mergeRun.merged[3] = [doc |-> "B", page |-> 3]
    /\ mergeRun.merged[4] = [doc |-> "A", page |-> 1]
    /\ mergeRun.merged[13] = [doc |-> "A", page |-> 10]

\* C32: the links of a fetched page that pass the same-domain filter are
\* offered to add() in the order the extractor returned them: whatever the
\* list of links is, the entries the page puts into the queue are, in that
\* order, the admitted ones among the links that parse and are on the base
\* domain, behind the entries that waited already.
C32_DiscoveryOrder ==
    \A links \in LinkLists(site) :
        LET survivors == SelectSeq(links, LAMBDA href :
                             ~href.bad /\ OnBaseDomain(href.hostname))
            r == addLinks(queue, visited, filterLinks(links), item.depth + 1,
                          maxPages, {})
        IN /\ filterLinks(links) = survivors
           /\ r.queue = queue \o AdmittedOf(survivors, visited, item.depth + 1,
                                            maxPages)

\* C32 witness: the seed page returned links of which /x and, after it,
\* sub.a.com/y were admitted, and their entries wait in the queue in this order.
C32_Witness ==
    /\ pc = "pageCloseBreak"
    /\ Len(visits) = 1
    /\ result.pages[1].links = MaxLinks
    /\ queue = <<[url |-> BaseHost \o <<"/", "x">>, depth |-> 1],
                 [url |-> SubHost \o <<"/", "y">>, depth |-> 1]>>

RECURSIVE SumOf(_)
SumOf(numbers) ==
    IF numbers = <<>> THEN 0 ELSE Head(numbers) + SumOf(Tail(numbers))

\* C33: the counters of stats agree with the recorded lists: successfulPages
\* is the number of PageRecords, failedPages the number of ErrorRecords, and
\* totalLinks, totalImages and totalTables are the sums of the numbers of
\* links, images and tables of the PageRecords.
C33_CountersAgree ==
    LET pages == result.pages
        count == 1..Len(pages)
    IN /\ result.stats.successfulPages = Len(pages)
       /\ result.stats.failedPages = Len(result.errors)
       /\ result.stats.totalLinks = SumOf([i \in count |-> pages[i].links])
       /\ result.stats.totalImages = SumOf([i \in count |-> pages[i].images])
       /\ result.stats.totalTables = SumOf([i \in count |-> pages[i].tables])

\* C33 witness: a page with links and a page without have been recorded,
\* and no error.
C33_Witness ==
    /\ Len(result.pages) = 2
    /\ result.pages[1].links > 0
    /\ result.pages[2].links = 0
    /\ result.errors = <<>>
    /\ result.stats.totalLinks = result.pages[1].links

\* C34: failed visits use up the page budget: the PageRecords and
\* ErrorRecords together (stats.totalPages) are never more than the URLs of
\* the visited set, which are never more than maxPages; and when
\* successfulPages has reached maxPages the frontier is empty.
C34_FailuresUseBudget ==
    /\ result.stats.totalPages = Len(result.pages) + Len(result.errors)
    /\ result.stats.totalPages <= Cardinality(visited)
    /\ Cardinality(visited) <= maxPages
    /\ result.stats.successfulPages >= maxPages => queue = <<>>

\* C34 witness: with a budget of two, one visit ended in a PageRecord and
\* one in an ErrorRecord; the visited set is full and the frontier is empty
\* while successfulPages is still below maxPages.
C34_Witness ==
    /\ pc = "delay"
    /\ maxPages = 2
    /\ result.stats.failedPages = 1
    /\ result.stats.totalPages = maxPages
    /\ Cardinality(visited) = maxPages
    /\ result.stats.successfulPages < maxPages
    /\ queue = <<>>

\* the records, PageRecords and ErrorRecords together, of a URL
RecordsOf(url) == Len(PagesOf(url)) + Len(ErrorsOf(url))

\* C35: each visited URL gets exactly one record: every URL whose visit is
\* over has exactly one PageRecord or ErrorRecord, the URL being visited has
\* at most one, and no URL that was not handed to a visit has any.
C35_OneRecordPerVisit ==
    /\ \A i \in 1..Len(visits) :
          IF i = Len(visits) /\ Visiting
          THEN RecordsOf(visits[i]) <= 1
          ELSE RecordsOf(visits[i]) = 1
    /\ \A i \in 1..Len(result.pages) :
          \E j \in 1..Len(visits) : visits[j] = result.pages[i].url
    /\ \A i \in 1..Len(result.errors) :
          \E j \in 1..Len(visits) : visits[j] = result.errors[i].url
    /\ (pc = "pageCloseBreak" \/ (pc = "pageClose" /\ retries > MAX_RETRIES))
          => RecordsOf(item.url) = 1

\* C35 witness: crawlPage has returned twice, once after addPage and once
\* after addError, each for a URL of its own.
C35_Witness ==
    /\ pc = "delay"
    /\ Len(visits) = 2
    /\ Len(PagesOf(visits[1])) = 1 /\ ErrorsOf(visits[1]) = <<>>
    /\ Len(ErrorsOf(visits[2])) = 1 /\ PagesOf(visits[2]) = <<>>

\* C36: a failed attempt has no effect on the crawl state: the turn in which
\* an attempt ends in the catch branch leaves the queue, the visited set and
\* the PageRecords as they are, and stats as well unless it is the last
\* attempt of the visit, which adds one ErrorRecord for the URL and counts
\* it; the queue grows only in the turn that seeds it or that records a
\* PageRecord.
C36_FailedAttemptNoEffect ==
    [][/\ retries' = retries + 1 =>
             /\ queue' = queue /\ visited' = visited /\ pushed' = pushed
             /\ result'.pages = result.pages
             /\ IF retries' > MAX_RETRIES
                THEN /\ result'.errors =
                            Append(result.errors, [url |-> item.url, error |-> err'])
                     /\ result'.stats =
                            [result.stats EXCEPT !.totalPages = @ + 1,
                                                 !.failedPages = @ + 1]
                ELSE result' = result
       /\ pushed' # pushed =>
             \/ pc = "launch"
             \/ /\ Len(result'.pages) = Len(result.pages) + 1
                /\ retries' = retries]_vars

\* C36 witness: two attempts at a page failed and the third recorded it and
\* put its links into the queue.
C36_Witness ==
    /\ pc = "pageCloseBreak"
    /\ retries = 2
    /\ Len(result.pages) = 1
    /\ result.errors = <<>>
    /\ queue # <<>>

\* C37: the browser is closed at most once per run: browser.close() is not
\* called a second time, whether one signal arrives during the crawl, a
\* signal arrives during the final cleanup, or two signals arrive in a row.
C37_CloseAtMostOnce == closeCalls <= 1

\* C38: in a run of the crawler, once finalize() has been called the result
\* is not changed again: no addPage and no addError follows, whatever the
\* interleaving of the loop with the signal handlers; finalize() itself is
\* called once at most.
C38_FrozenAfterFinalize ==
    [][finalizeCalls >= 1 =>
          /\ result' = result
          /\ finalizeCalls' = finalizeCalls]_vars

\* C38 witness: a signal arrived while the crawl ran and another after
\* finalize(), while main() awaited browser.close(); the finalized result
\* holds the records of two visits.
C38_Witness ==
    /\ finalizeCalls = 1
    /\ result.endTime = "stamped"
    /\ signals = 2
    /\ shutdownPending >= 1
    /\ pc = "closing"
    /\ result.stats.totalPages = 2

IsPageNumber(s) == s # <<>> /\ \A i \in 1..Len(s) : IsDigit(s[i])

\* a span: two page numbers with "-" between them
IsSpan(s) ==
    \E i \in 1..Len(s) :
        /\ s[i] = "-"
        /\ IsPageNumber(SubSeq(s, 1, i - 1))
        /\ IsPageNumber(SubSeq(s, i + 1, Len(s)))

\* a range string: 'all', or page numbers and spans separated by ","
IsRange(s) ==
    \/ s = All
    \/ \A k \in 1..Len(split(s, ",")) :
          \/ IsPageNumber(trim(split(s, ",")[k]))
          \/ IsSpan(trim(split(s, ",")[k]))

\* C40: parsePageRange returns only valid zero-based page indices: for every
\* range string made of 'all', page numbers and 'start-end' spans, a start of
\* 0 and an end beyond totalPages included, every index i returned satisfies
\* 0 <= i < totalPages.
C40_ValidIndices ==
    (mergeRun.pc = "returned" /\ IsRange(mergeRun.range)) =>
        \A k \in 1..Len(mergeRun.pages) :
            0 <= mergeRun.pages[k] /\ mergeRun.pages[k] < mergeRun.totalPages

====
